---- MODULE Spec2Model ----
(***************************************************************************)
(* Model of the Horizonte Europa dashboard (src/app/dashboard.py) and its  *)
(* helpers (src/app/utils.py): the filter functions apply_filters and      *)
(* filter_dataframe, the two search forms of show_search, load_data and    *)
(* its memo, render_sidebar and main, and the aggregation helpers.         *)
(*                                                                         *)
(* A text is a sequence of one-character strings, so that substring and    *)
(* pattern matching, lower-casing and str() are computed, not assumed.     *)
(* A DataFrame is a record: its column set, the dtype pandas gave every    *)
(* column, and its rows in order; a row carries its index label (id) and   *)
(* its cells.  An operation that raises yields a frame whose exc field     *)
(* names the exception.                                                    *)
(***************************************************************************)
EXTENDS Integers, Sequences, FiniteSets, TLC

(* ------------------------------ bounds -------------------------------- *)
\* most rows of a table
MaxRows == 2
\* most runs of main in a session
MaxRuns == 2
\* most rows of a table given to an aggregation helper
MaxStatRows == 4

(* ------------------------------ values -------------------------------- *)
\* a missing cell (NaN) and Python's None
Null == [k |-> "null", s |-> <<>>, n |-> 0]
Str(s) == [k |-> "str", s |-> s, n |-> 0]
Num(n) == [k |-> "num", s |-> <<>>, n |-> n]

\* the texts used as cell values: "a" and "An"
TxtA == <<"a">>
TxtB == <<"A", "n">>
CellValues == {Null, Str(TxtA), Str(TxtB)}

\* the cells of a year column, read as text: two years, the earlier one "1"
YearValues == {Null, Str(<<"1">>), Str(<<"2">>)}

\* the cells of an amount column
AmountValues == {Null, Num(1), Num(2)}

\* the cells of the duration column
DurationValues == {Null, Num(1)}

\* the characters of the texts in the order of their code points
Alphabet == <<" ", ".", "1", "2", "A", "N", "T", "a", "d", "n", "o", "s">>
Ord(c) == CHOOSE i \in 1..Len(Alphabet) : Alphabet[i] = c

\* Python's a < b on two str: the first differing character decides, and a
\* proper prefix is the smaller
TextLess(a, b) ==
    \E i \in 1..Len(b) :
        /\ i <= Len(a) + 1
        /\ \A j \in 1..(i - 1) : a[j] = b[j]
        /\ i = Len(a) + 1 \/ Ord(a[i]) < Ord(b[i])

\* x < y and x <= y on two values of one kind, neither of them missing
ValueLess(x, y) == IF x.k = "num" THEN x.n < y.n ELSE TextLess(x.s, y.s)
ValueLeq(x, y) == x = y \/ ValueLess(x, y)

\* sorted(S) of a set of values of one kind
RECURSIVE sorted(_)
sorted(S) ==
    IF S = {} THEN <<>>
    ELSE LET m == CHOOSE x \in S : \A y \in S : ValueLeq(x, y)
         IN <<m>> \o sorted(S \ {m})

\* the sentinel of the select boxes
Todos == Str(<<"T", "o", "d", "o", "s">>)

\* a filter value is a scalar or a list of scalars
Scalar(v) == [list |-> FALSE, v |-> v, items |-> <<>>]
List(xs) == [list |-> TRUE, v |-> Null, items |-> xs]

\* Python truthiness: None, "", 0 and [] are falsy
Truthy(value) ==
    IF value.list THEN Len(value.items) > 0
    ELSE CASE value.v.k = "null" -> FALSE
           [] value.v.k = "str" -> Len(value.v.s) > 0
           [] OTHER -> value.v.n # 0

(* ---------------------------- data frames ----------------------------- *)
\* columns that load_data reads with dtype str
StrDtypeCols == {"Año Inicio", "Año Fin", "Centro", "Ref.UE", "Cód.área"}

\* the columns of the sheet that hold numbers
NumericCols == {"Importe Concedido", "Duración (meses)"}

\* the dtype read_excel gives column c: a column of numbers is float64, and so
\* is a column whose cells are all missing unless it is read as str; any other
\* column here holds text
DtypeOf(c, cells, n) ==
    IF c \in NumericCols
       \/ (n > 0 /\ c \notin StrDtypeCols /\ (\A i \in 1..n : cells[i][c] = Null))
    THEN "float64" ELSE "object"

\* the cells column c can hold
ColumnValues(c) ==
    IF c = "Duración (meses)" THEN DurationValues
    ELSE IF c \in NumericCols THEN AmountValues
    ELSE IF c = "Año Inicio" THEN YearValues ELSE CellValues

\* the rows a sheet with the columns S can hold
SheetRows(S) ==
    { r \in [S -> CellValues \cup YearValues \cup AmountValues \cup DurationValues] :
        \A c \in S : r[c] \in ColumnValues(c) }

\* the table read from a sheet of n rows with columns S and cell contents f
MkFrame(S, n, f) ==
    [columns |-> S,
     dtypes |-> [c \in S |-> DtypeOf(c, f, n)],
     rows |-> [i \in 1..n |-> [id |-> i, cells |-> f[i]]],
     exc |-> ""]

\* the row counts of a sheet with the columns S: at most MaxRows, and none
\* for a sheet without columns
RowCounts(S) == 0..(IF S = {} THEN 0 ELSE MaxRows)

\* t is a table read from a sheet whose column set is one of Schemas
IsSheet(t, Schemas) ==
    \E S \in Schemas : \E n \in RowCounts(S) :
        \E f \in [1..n -> SheetRows(S)] : t = MkFrame(S, n, f)

\* t is a table read from a sheet of at most `most` rows whose column set is
\* one of Schemas
IsSheetUpTo(t, Schemas, most) ==
    \E S \in Schemas : \E n \in 0..(IF S = {} THEN 0 ELSE most) :
        \E f \in [1..n -> SheetRows(S)] : t = MkFrame(S, n, f)

\* the outcome of an operation that raised
Raised(e) == [columns |-> {}, dtypes |-> <<>>, rows |-> <<>>, exc |-> e]

\* the placeholder of a result that was never computed
NoFrame == Raised("unset")

\* df.copy()
copy(df) == df

\* df[df[key].isin(items)]: pandas' isin compares by value, NaN matching NaN
loc_isin(df, key, items) ==
    IF df.exc # "" THEN df
    ELSE IF key \notin df.columns THEN Raised("KeyError")
    ELSE LET Keep(r) == \E j \in 1..Len(items) : r.cells[key] = items[j]
         IN [df EXCEPT !.rows = SelectSeq(df.rows, Keep)]

\* the matching rows in descending order
loc_eq_sorted(df, key, value) ==
    IF df.exc # "" THEN df
    ELSE IF key \notin df.columns THEN Raised("KeyError")
    ELSE LET Keep(r) == r.cells[key] # Null /\ r.cells[key] = value
             kept == SelectSeq(df.rows, Keep)
         IN [df EXCEPT !.rows = [i \in 1..Len(kept) |-> kept[Len(kept) + 1 - i]]]

\* the first row taken for a header: the matching rows among the others
loc_eq_skip_first(df, key, value) ==
    IF df.exc # "" THEN df
    ELSE IF key \notin df.columns THEN Raised("KeyError")
    ELSE LET Keep(r) == r.cells[key] # Null /\ r.cells[key] = value
         IN [df EXCEPT !.rows = IF Len(df.rows) = 0 THEN <<>>
                                ELSE SelectSeq(Tail(df.rows), Keep)]

\* df[df[key] == value]: a missing cell equals nothing
loc_eq(df, key, value) ==
    IF df.exc # "" THEN df
    ELSE IF key \notin df.columns THEN Raised("KeyError")
    ELSE LET Keep(r) == r.cells[key] # Null /\ r.cells[key] = value
         IN [df EXCEPT !.rows = SelectSeq(df.rows, Keep)]

(* ------------------------- dashboard.apply_filters -------------------- *)
\* the turn of the loop without the test that the key is a column
apply_filters_step_any_key(df_filtered, key, value) ==
    IF Truthy(value)
    THEN IF value.list /\ Len(value.items) > 0
         THEN loc_isin(df_filtered, key, value.items)
         ELSE IF ~value.list /\ value.v # Todos
              THEN loc_eq(df_filtered, key, value.v)
              ELSE df_filtered
    ELSE df_filtered

\* one turn of the loop of apply_filters over filters.items()
apply_filters_step(df_filtered, key, value) ==
    IF Truthy(value) /\ key \in df_filtered.columns
    THEN IF value.list /\ Len(value.items) > 0
         THEN loc_isin(df_filtered, key, value.items)
         ELSE IF ~value.list /\ value.v # Todos
              THEN loc_eq(df_filtered, key, value.v)
              ELSE df_filtered
    ELSE df_filtered

RECURSIVE apply_filters_loop(_, _, _)
apply_filters_loop(df_filtered, items, i) ==
    IF i > Len(items) THEN df_filtered
    ELSE apply_filters_loop(
             apply_filters_step(df_filtered, items[i].key, items[i].value),
             items, i + 1)

\* no filter taken for no match
apply_filters_empty_is_none(df, filters) ==
    IF Len(filters) = 0 THEN [copy(df) EXCEPT !.rows = <<>>]
    ELSE apply_filters_loop(copy(df), filters, 1)

\* apply_filters(df, filters); filters is the dict as its items in order
apply_filters(df, filters) == apply_filters_loop(copy(df), filters, 1)

(* ------------------------- utils.filter_dataframe --------------------- *)
\* a loop body that tests only whether the column is there
filter_dataframe_step_any_value(df_filtered, column, values) ==
    IF column \in df_filtered.columns
    THEN IF values.list
         THEN loc_isin(df_filtered, column, values.items)
         ELSE loc_eq(df_filtered, column, values.v)
    ELSE df_filtered

\* the body of the loop: if values and column in df_filtered.columns
filter_dataframe_step(df_filtered, column, values) ==
    IF Truthy(values) /\ column \in df_filtered.columns
    THEN IF values.list
         THEN loc_isin(df_filtered, column, values.items)
         ELSE loc_eq(df_filtered, column, values.v)
    ELSE df_filtered

RECURSIVE filter_dataframe_loop(_, _, _)
filter_dataframe_loop(df_filtered, items, i) ==
    IF i > Len(items) THEN df_filtered
    ELSE filter_dataframe_loop(
             filter_dataframe_step(df_filtered, items[i].key, items[i].value),
             items, i + 1)

filter_dataframe(df, filters) == filter_dataframe_loop(copy(df), filters, 1)

(* ------------------------------- texts -------------------------------- *)
\* str.lower() on the letters in use
Lower(c) == CASE c = "A" -> "a" [] c = "N" -> "n" [] OTHER -> c

\* Series.fillna(''): a missing cell becomes the empty text
fillna_empty(v) == IF v = Null THEN Str(<<>>) ELSE v

\* Series.astype(str): str() of the cell; a missing cell becomes "nan"
astype_str(v) ==
    CASE v.k = "null" -> Str(<<"n", "a", "n">>)
      [] v.k = "num" -> Str(<<"0">>)
      [] OTHER -> v

\* re.search(pat, s, re.IGNORECASE) for a pattern of letters, blanks and ".":
\* str.contains takes its argument as a regular expression (regex=True is the
\* default), in which "." stands for any one character
re_search(pat, s) ==
    \E i \in 0..(Len(s) - Len(pat)) :
        \A j \in 1..Len(pat) : pat[j] = "." \/ Lower(pat[j]) = Lower(s[i + j])

\* one element of Series.str.contains(pat, case=False, na=False): an element
\* that is no text gives NaN, which na=False turns into False
str_contains(v, pat) == v.k = "str" /\ re_search(pat, v.s)

\* truthiness of the value of a text input or select box (None and '' are falsy)
Filled(v) == v.k = "str" /\ Len(v.s) > 0

(* ---------------------- show_search: free-text form -------------------- *)
search_fields ==
    <<"Título", "Acrónimo del proyecto", "Resumen", "Keywords",
      "Nombre Centro IP Normalizado">>

\* the mask of one row after the loop over search_fields[i..]: starts False,
\* and is or-ed with the match of every field that is a column
RECURSIVE smart_mask(_, _, _, _, _)
smart_mask(mask, columns, cells, busqueda_inteligente, i) ==
    IF i > Len(search_fields) THEN mask
    ELSE LET field == search_fields[i]
             hit == IF field \in columns
                    THEN mask \/ str_contains(astype_str(fillna_empty(cells[field])),
                                              busqueda_inteligente)
                    ELSE mask
         IN smart_mask(hit, columns, cells, busqueda_inteligente, i + 1)

\* df_result = df.copy(); ...; df_result = df_result[mask]
smart_search(df, busqueda_inteligente) ==
    LET df_result == copy(df)
        Keep(r) == smart_mask(FALSE, df_result.columns, r.cells,
                              busqueda_inteligente, 1)
    IN [df_result EXCEPT !.rows = SelectSeq(df_result.rows, Keep)]

\* the guard of the free-text search: the form was submitted and the query is
\* truthy, that is, not the empty text
smart_search_runs(submitted, busqueda_inteligente) ==
    submitted /\ Len(busqueda_inteligente) > 0

(* --------------------- show_search: structured form -------------------- *)
centro_col == "Nombre Centro IP Normalizado"

\* df_result[df_result[col].astype(str).str.contains(pat, case=False, na=False)]
loc_astype_contains(df_result, col, pat) ==
    IF df_result.exc # "" THEN df_result
    ELSE IF col \notin df_result.columns THEN Raised("KeyError")
    ELSE LET Keep(r) == str_contains(astype_str(r.cells[col]), pat)
         IN [df_result EXCEPT !.rows = SelectSeq(df_result.rows, Keep)]

\* df_result[df_result[col].str.contains(pat, case=False, na=False)]: the .str
\* accessor raises AttributeError on a column that is not of object dtype
loc_str_contains(df_result, col, pat) ==
    IF df_result.exc # "" THEN df_result
    ELSE IF col \notin df_result.columns THEN Raised("KeyError")
    ELSE IF df_result.dtypes[col] # "object" THEN Raised("AttributeError")
    ELSE LET Keep(r) == str_contains(r.cells[col], pat)
         IN [df_result EXCEPT !.rows = SelectSeq(df_result.rows, Keep)]

\* the fields of the form in the order in which the search applies them
SearchFields ==
    <<"ref_ue", "titulo", "investigador", "acronimo", "programa_busqueda",
      "centro_busqueda", "keywords", "area_busqueda">>

\* the column a field of the form searches
FieldColumn(field) ==
    CASE field = "ref_ue" -> "Ref.UE"
      [] field = "titulo" -> "Título"
      [] field = "investigador" -> "Nombre IP"
      [] field = "acronimo" -> "Acrónimo"
      [] field = "programa_busqueda" -> "Programa"
      [] field = "centro_busqueda" -> centro_col
      [] field = "keywords" -> "Keywords"
      [] OTHER -> "Area"

\* the fields that are select boxes
SelectFields == {"programa_busqueda", "centro_busqueda", "area_busqueda"}

\* whether the if of a field lets its filter run
field_active(df_result, field, value) ==
    /\ Filled(value)
    /\ field \in SelectFields => value # Todos
    /\ FieldColumn(field) \in df_result.columns

\* one of the eight if-statements of the structured search
field_step(df_result, field, value) ==
    IF df_result.exc # "" \/ ~field_active(df_result, field, value)
    THEN df_result
    ELSE IF field = "ref_ue"
         THEN loc_astype_contains(df_result, FieldColumn(field), value.s)
         ELSE IF field \in SelectFields
              THEN loc_eq(df_result, FieldColumn(field), value)
              ELSE loc_str_contains(df_result, FieldColumn(field), value.s)

\* a later filter applied to df instead of df_result
detailed_search_restart(df, form) ==
    LET r0 == copy(df)
        r1 == field_step(r0, "ref_ue", form.ref_ue)
        r2 == field_step(r1, "titulo", form.titulo)
        r3 == field_step(r2, "investigador", form.investigador)
        r4 == field_step(r3, "acronimo", form.acronimo)
        r5 == field_step(IF r4.exc = "" THEN r0 ELSE r4,
                         "programa_busqueda", form.programa_busqueda)
        r6 == field_step(r5, "centro_busqueda", form.centro_busqueda)
        r7 == field_step(IF r6.exc = "" THEN r0 ELSE r6,
                         "keywords", form.keywords)
        r8 == field_step(r7, "area_busqueda", form.area_busqueda)
    IN r8

\* df_result = df.copy() followed by the eight filters in their order
detailed_search(df, form) ==
    LET r0 == copy(df)
        r1 == field_step(r0, "ref_ue", form.ref_ue)
        r2 == field_step(r1, "titulo", form.titulo)
        r3 == field_step(r2, "investigador", form.investigador)
        r4 == field_step(r3, "acronimo", form.acronimo)
        r5 == field_step(r4, "programa_busqueda", form.programa_busqueda)
        r6 == field_step(r5, "centro_busqueda", form.centro_busqueda)
        r7 == field_step(r6, "keywords", form.keywords)
        r8 == field_step(r7, "area_busqueda", form.area_busqueda)
    IN r8

\* the values a text input can hold if its column is there, else None
TextQueries == {Str(<<>>), Str(<<"a">>), Str(<<"n">>)}
text_input(df, col) == IF col \in df.columns THEN TextQueries ELSE {Null}

\* the options of a select box: 'Todos' and the values of the column that are
\* not missing; None if the column is not there
selectbox(df, col) ==
    IF col \in df.columns
    THEN {Todos} \cup ({ df.rows[i].cells[col] : i \in 1..Len(df.rows) } \ {Null})
    ELSE {Null}

\* what the structured form can hold when it is submitted
Forms(df) ==
    [ref_ue : TextQueries,
     titulo : TextQueries,
     investigador : text_input(df, "Nombre IP"),
     acronimo : text_input(df, "Acrónimo"),
     programa_busqueda : selectbox(df, "Programa"),
     centro_busqueda : selectbox(df, centro_col),
     keywords : text_input(df, "Keywords"),
     area_busqueda : selectbox(df, "Area")]

EmptyForm ==
    [ref_ue |-> Null, titulo |-> Null, investigador |-> Null, acronimo |-> Null,
     programa_busqueda |-> Null, centro_busqueda |-> Null, keywords |-> Null,
     area_busqueda |-> Null]

\* what the free-text input can hold: '', ' ', 'a', 'A', 'n', '.', 'an'
SmartQueries ==
    { <<>>, <<" ">>, <<"a">>, <<"A">>, <<"n">>, <<".">>, <<"a", "n">> }

(* ------------------------------ load_data ------------------------------ *)
\* the format variants of the data file: the preprocessed compact file, the
\* preprocessed spreadsheet 9PM_bootcamp_clean.xlsx, the original spreadsheet
Variants == {"compact", "clean_xlsx", "original_xlsx"}

\* a loader that falls back to the original spreadsheet
load_data_fallback(files, clean, original) ==
    IF "clean_xlsx" \in files
    THEN [loaded |-> "table", df |-> clean, st_errors |-> 0]
    ELSE IF "original_xlsx" \in files
         THEN [loaded |-> "table", df |-> original, st_errors |-> 0]
         ELSE [loaded |-> "none", df |-> NoFrame, st_errors |-> 2]

\* load_data(): read_excel of 9PM_bootcamp_clean.xlsx; any exception is caught,
\* reported with two st.error calls, and None is returned
load_data(files, clean, original) ==
    IF "clean_xlsx" \in files
    THEN [loaded |-> "table", df |-> clean, st_errors |-> 0]
    ELSE [loaded |-> "none", df |-> NoFrame, st_errors |-> 2]

(* ---------------------------- st.cache_data ---------------------------- *)
\* the memo of the decorated load_data: nothing stored, or what the first
\* call returned together with the messages it showed
EmptyCache ==
    [stored |-> FALSE,
     ret |-> [loaded |-> "pending", df |-> NoFrame, st_errors |-> 0]]

\* load_data without the decorator: every call reads the file
uncached_load_data(cache, files, clean, original) ==
    [cache |-> cache, ret |-> load_data(files, clean, original), read |-> 1]

\* @st.cache_data def load_data(): the first call runs the function and stores
\* what it returned, None included; a later call returns a copy of the stored
\* value and replays the stored messages without running the function
cached_load_data(cache, files, clean, original) ==
    IF cache.stored
    THEN [cache |-> cache,
          ret |-> [cache.ret EXCEPT !.df = copy(cache.ret.df)],
          read |-> 0]
    ELSE LET ret == load_data(files, clean, original)
         IN [cache |-> [stored |-> TRUE, ret |-> ret], ret |-> ret, read |-> 1]

(* ---------------------------- render_sidebar ---------------------------- *)
\* df[col].dropna().unique()
unique(df, col) ==
    { df.rows[i].cells[col] : i \in 1..Len(df.rows) } \ {Null}

\* años_disponibles: the years of the column that are not missing, not the
\* empty text and not the text 'nan', in ascending order
NanText == <<"n", "a", "n">>
anos_disponibles(df) ==
    sorted({ v \in unique(df, "Año Inicio") : Len(v.s) > 0 /\ v.s # NanText })

\* presupuestos_validos: the amounts of the column that are not missing
presupuestos_validos(df) == sorted(unique(df, "Importe Concedido"))

\* what st.sidebar.multiselect can return for column col: the chosen options in
\* the order of the options; the widget is not drawn if the column is absent
multiselect(df, col) ==
    IF col \notin df.columns THEN { <<>> }
    ELSE { LET Chosen(x) == x \in T IN SelectSeq(sorted(unique(df, col)), Chosen) :
             T \in SUBSET unique(df, col) }

\* what a range slider over the ascending options can return: a pair lo <= hi
\* of options; the widget is not drawn if there is no option
range_slider(options) ==
    IF Len(options) = 0 THEN { <<Null, Null>> }
    ELSE { <<options[i], options[j]>> :
             <<i, j>> \in { p \in (1..Len(options)) \X (1..Len(options)) :
                              p[1] <= p[2] } }

\* the widget values with which the sidebar can be left for the table df
Widgets(df) ==
    [situacion : IF "Situación" \in df.columns
                 THEN {Todos} \cup unique(df, "Situación") ELSE {Null},
     programa : multiselect(df, "Programa"),
     accion : multiselect(df, "Acción clave"),
     area : multiselect(df, "Area"),
     centro : multiselect(df, centro_col),
     anio : range_slider(IF "Año Inicio" \in df.columns
                         THEN anos_disponibles(df) ELSE <<>>),
     presupuesto : range_slider(IF "Importe Concedido" \in df.columns
                                THEN presupuestos_validos(df) ELSE <<>>)]

\* every widget as it is first drawn: 'Todos', nothing chosen, both sliders at
\* (min, max)
DefaultWidgets(df) ==
    LET anos == IF "Año Inicio" \in df.columns THEN anos_disponibles(df) ELSE <<>>
        pres == IF "Importe Concedido" \in df.columns
                THEN presupuestos_validos(df) ELSE <<>>
    IN [situacion |-> IF "Situación" \in df.columns THEN Todos ELSE Null,
        programa |-> <<>>, accion |-> <<>>, area |-> <<>>, centro |-> <<>>,
        anio |-> IF Len(anos) = 0 THEN <<Null, Null>>
                 ELSE <<anos[1], anos[Len(anos)]>>,
        presupuesto |-> IF Len(pres) = 0 THEN <<Null, Null>>
                        ELSE <<pres[1], pres[Len(pres)]>>]

\* no widget drawn
NoWidgets ==
    [situacion |-> Null, programa |-> <<>>, accion |-> <<>>, area |-> <<>>,
     centro |-> <<>>, anio |-> <<Null, Null>>, presupuesto |-> <<Null, Null>>]

\* one entry of the filters dict, or none
Entry(present, key, value) ==
    IF present THEN <<[key |-> key, value |-> value]>> ELSE <<>>

\* render_sidebar(df): the filters dict, as its items in insertion order, for
\* the widget values w
render_sidebar(df, w) ==
    Entry("Situación" \in df.columns, "Situación",
          IF w.situacion = Todos THEN Scalar(Null) ELSE Scalar(w.situacion))
    \o Entry("Programa" \in df.columns, "Programa", List(w.programa))
    \o Entry("Acción clave" \in df.columns, "Acción clave", List(w.accion))
    \o Entry("Area" \in df.columns, "Area", List(w.area))
    \o Entry(centro_col \in df.columns, centro_col, List(w.centro))
    \o Entry("Año Inicio" \in df.columns /\ Len(anos_disponibles(df)) > 0,
             "año_inicio_min", Scalar(w.anio[1]))
    \o Entry("Año Inicio" \in df.columns /\ Len(anos_disponibles(df)) > 0,
             "año_inicio_max", Scalar(w.anio[2]))
    \o Entry("Importe Concedido" \in df.columns
               /\ Len(presupuestos_validos(df)) > 0,
             "presupuesto_min", Scalar(w.presupuesto[1]))
    \o Entry("Importe Concedido" \in df.columns
               /\ Len(presupuestos_validos(df)) > 0,
             "presupuesto_max", Scalar(w.presupuesto[2]))

(* --------------------------------- main --------------------------------- *)
\* the keys of the filters dict that apply_filters is not given
special_keys ==
    {"año_inicio_min", "año_inicio_max", "presupuesto_min", "presupuesto_max"}

\* key in filters, and filters[key]
HasKey(filters, key) == \E i \in 1..Len(filters) : filters[i].key = key
GetItem(filters, key) ==
    filters[CHOOSE i \in 1..Len(filters) : filters[i].key = key].value.v

\* df[(df[col] >= lo) & (df[col] <= hi)]: a missing cell satisfies neither
\* comparison
loc_between(df, col, lo, hi) ==
    IF df.exc # "" THEN df
    ELSE IF col \notin df.columns THEN Raised("KeyError")
    ELSE LET Keep(r) == /\ r.cells[col] # Null
                        /\ ValueLeq(lo, r.cells[col])
                        /\ ValueLeq(r.cells[col], hi)
         IN [df EXCEPT !.rows = SelectSeq(df.rows, Keep)]

\* filters_to_apply: the items of filters whose key is not special
filters_to_apply(filters) ==
    LET NotSpecial(item) == item.key \notin special_keys
    IN SelectSeq(filters, NotSpecial)

\* lines 815-833 of main: the table the four views are given
filter_step(df, filters) ==
    LET by_value == apply_filters(df, filters_to_apply(filters))
        by_year ==
            IF /\ HasKey(filters, "año_inicio_min")
               /\ HasKey(filters, "año_inicio_max")
               /\ "Año Inicio" \in by_value.columns
            THEN loc_between(by_value, "Año Inicio",
                             GetItem(filters, "año_inicio_min"),
                             GetItem(filters, "año_inicio_max"))
            ELSE by_value
    IN IF /\ HasKey(filters, "presupuesto_min")
          /\ HasKey(filters, "presupuesto_max")
          /\ "Importe Concedido" \in by_year.columns
       THEN loc_between(by_year, "Importe Concedido",
                        GetItem(filters, "presupuesto_min"),
                        GetItem(filters, "presupuesto_max"))
       ELSE by_year

\* what the user does with the two forms of the search tab in one run:
\* nothing, or one of them submitted
NoSubmit == [kind |-> "none", q |-> <<>>, f |-> EmptyForm]
Submissions(df) ==
    {NoSubmit}
    \cup { [kind |-> "smart", q |-> q, f |-> EmptyForm] :
             q \in { <<>>, <<"a">>, <<"n">> } }
    \cup { [kind |-> "detailed", q |-> <<>>, f |-> f] :
             f \in { g \in Forms(df) : g.ref_ue = Str(<<>>) /\ g.titulo = Str(<<>>) } }

\* show_search(df): the result table of the form that was submitted
show_search(df, sub) ==
    CASE sub.kind = "smart" ->
           IF smart_search_runs(TRUE, sub.q) THEN smart_search(df, sub.q)
           ELSE NoFrame
      [] sub.kind = "detailed" -> detailed_search(df, sub.f)
      [] OTHER -> NoFrame

\* a main that goes on after load_data returned None
main_never_stops(loaded) == FALSE

\* if df is None: st.stop()
main_stops(loaded) == loaded = "none"

\* a search tab that is given the filtered table
search_table_filtered(df, df_filtered) == df_filtered

\* the table main gives show_search: show_search(df)
search_table(df, df_filtered) == df

\* an apply_filters that drops the rows from the table it is given
apply_filters_in_place(df, filters) == apply_filters(df, filters)

\* the table that was passed to apply_filters, after the call: the function
\* filters df.copy() and rebinds only its local df_filtered
apply_filters_leaves(df, filters) == df

\* the table that was passed to a view or to show_search, after the call: the
\* views assign columns only to tables they derived (groupby, value_counts,
\* df[...].copy()), and show_search filters df.copy()
render_leaves(df) == df

\* main(), with load_data() having returned ret, the sidebar left at w and the
\* search forms at sub: what the run computed, and df at the end of the run
main(ret, w, sub) ==
    IF main_stops(ret.loaded)
    THEN [op |-> "stopped", df |-> ret.df, widgets |-> NoWidgets,
          filters |-> <<>>, df_filtered |-> NoFrame, views |-> FALSE,
          sub |-> NoSubmit, result |-> NoFrame]
    ELSE LET filters == render_sidebar(ret.df, w)
             df_filtered == filter_step(ret.df, filters)
             after_filters ==
                 apply_filters_leaves(ret.df, filters_to_apply(filters))
             shown == render_leaves(df_filtered)
             searched == search_table(after_filters, shown)
         IN [op |-> "main", df |-> render_leaves(after_filters), widgets |-> w,
             filters |-> filters, df_filtered |-> shown, views |-> TRUE,
             sub |-> sub, result |-> show_search(searched, sub)]

(* ----------------------- utils: numbers of a column -------------------- *)
\* a float that is NaN, or the exact number x of some unit
NaN == [nan |-> TRUE, x |-> 0]
Exact(x) == [nan |-> FALSE, x |-> x]

\* df[column].dropna(): the numbers of the column, in row order
dropna(df, column) ==
    LET Present(r) == r.cells[column] # Null
        rs == SelectSeq(df.rows, Present)
    IN [i \in 1..Len(rs) |-> rs[i].cells[column].n]

\* the numbers xs in ascending order
RECURSIVE ascending(_)
ascending(xs) ==
    IF Len(xs) = 0 THEN <<>>
    ELSE LET i == CHOOSE i \in 1..Len(xs) : \A j \in 1..Len(xs) : xs[i] <= xs[j]
         IN <<xs[i]>> \o ascending(SubSeq(xs, 1, i - 1) \o SubSeq(xs, i + 1, Len(xs)))

\* Series.quantile(k/4) of the numbers xs, in quarters: linear interpolation
\* between the two order statistics around position (n - 1) * k / 4, NaN if
\* there is no number
quantile(xs, k) ==
    LET v == ascending(xs)
        pos == (Len(v) - 1) * k
        lo == pos \div 4
        frac == pos % 4
    IN IF Len(v) = 0 THEN NaN
       ELSE Exact(4 * v[lo + 1]
                  + (IF frac = 0 THEN 0 ELSE frac * (v[lo + 2] - v[lo + 1])))

\* Q1 - 1.5 * IQR and Q3 + 1.5 * IQR in eighths, from Q1 and Q3 in quarters
lower_bound(Q1, Q3) ==
    IF Q1.nan \/ Q3.nan THEN NaN ELSE Exact(2 * Q1.x - 3 * (Q3.x - Q1.x))
upper_bound(Q1, Q3) ==
    IF Q1.nan \/ Q3.nan THEN NaN ELSE Exact(2 * Q3.x + 3 * (Q3.x - Q1.x))

\* a mask that also takes a value that equals a bound
outside_or_on(cell, lower, upper) ==
    /\ cell # Null /\ ~lower.nan /\ ~upper.nan
    /\ 8 * cell.n <= lower.x \/ 8 * cell.n >= upper.x

\* (df[column] < lower_bound) | (df[column] > upper_bound) for one cell: a
\* comparison with a missing cell or with a NaN bound is False
outside(cell, lower, upper) ==
    /\ cell # Null /\ ~lower.nan /\ ~upper.nan
    /\ 8 * cell.n < lower.x \/ 8 * cell.n > upper.x

\* the outcome of a helper that raised on df[column]
NoStat ==
    [exc |-> "", lower_bound |-> NaN, upper_bound |-> NaN, table |-> <<>>,
     cells |-> {}, stats |-> <<>>]
StatRaised(e) == [NoStat EXCEPT !.exc = e]

(* ------------------------- utils.detect_outliers ----------------------- *)
\* detect_outliers(df, column): df[column] raises KeyError if the column is
\* absent, and quantile raises TypeError on a column of text
detect_outliers(df, column) ==
    IF column \notin df.columns
    THEN [outliers |-> NoFrame, stat |-> StatRaised("KeyError")]
    ELSE IF df.dtypes[column] # "float64"
    THEN [outliers |-> NoFrame, stat |-> StatRaised("TypeError")]
    ELSE LET Q1 == quantile(dropna(df, column), 1)
             Q3 == quantile(dropna(df, column), 3)
             lower == lower_bound(Q1, Q3)
             upper == upper_bound(Q1, Q3)
             Keep(r) == outside(r.cells[column], lower, upper)
         IN [outliers |-> [df EXCEPT !.rows = SelectSeq(df.rows, Keep)],
             stat |-> [NoStat EXCEPT !.lower_bound = lower,
                                     !.upper_bound = upper]]

(* --------------------- utils.create_frequency_table -------------------- *)
\* the sequences that hold every record of E once, largest field key first;
\* the order among equal keys is the sort's
Descending(E, key) ==
    { s \in [1..Cardinality(E) -> E] :
        /\ \A i, j \in 1..Cardinality(E) : i # j => s[i] # s[j]
        /\ \A i, j \in 1..Cardinality(E) : i < j => s[i][key] >= s[j][key] }

\* how many rows of df hold v in the column
count_of(df, column, v) ==
    Cardinality({ i \in 1..Len(df.rows) : df.rows[i].cells[column] = v })

\* df[column].value_counts(): the values that are not missing with their
\* counts, most frequent first
value_counts(df, column) ==
    Descending({ [value |-> v, Frecuencia |-> count_of(df, column, v)] :
                   v \in unique(df, column) }, "Frecuencia")

\* round(num / den, 0) of numpy: to the nearest integer, a tie to the even one
round(num, den) ==
    LET q == num \div den
        r == num % den
    IN IF 2 * r < den THEN q
       ELSE IF 2 * r > den THEN q + 1
       ELSE IF q % 2 = 0 THEN q ELSE q + 1

\* freq.head(top_n)
head(freq, top_n) ==
    SubSeq(freq, 1, IF top_n < Len(freq) THEN top_n ELSE Len(freq))

\* create_frequency_table(df, column, top_n), with freq the order in which
\* value_counts returned the values; Porcentaje is in hundredths
create_frequency_table(df, column, top_n, freq) ==
    IF column \notin df.columns THEN StatRaised("KeyError")
    ELSE LET table == [i \in 1..Len(freq) |->
                         [value |-> freq[i].value,
                          Frecuencia |-> freq[i].Frecuencia,
                          Porcentaje |-> round(freq[i].Frecuencia * 10000,
                                               Len(df.rows))]]
         IN [NoStat EXCEPT !.table = IF Truthy(Scalar(top_n))
                                     THEN head(table, top_n.n) ELSE table]

(* ----------------------- utils.create_cross_table ---------------------- *)
\* the label of the margins
All == Str(<<"A", "l", "l">>)

\* pd.crosstab(df[col1], df[col2], margins=True): the counts of the rows in
\* which neither cell is missing, by pair of values, with the totals under
\* 'All'; no cell if there is no such row
create_cross_table(df, col1, col2) ==
    IF col1 \notin df.columns \/ col2 \notin df.columns
    THEN StatRaised("KeyError")
    ELSE LET full == { i \in 1..Len(df.rows) :
                         /\ df.rows[i].cells[col1] # Null
                         /\ df.rows[i].cells[col2] # Null }
             Is(v, a) == a = All \/ v = a
             N(a, b) == Cardinality({ i \in full :
                                        /\ Is(df.rows[i].cells[col1], a)
                                        /\ Is(df.rows[i].cells[col2], b) })
             index == { df.rows[i].cells[col1] : i \in full } \cup {All}
             columns == { df.rows[i].cells[col2] : i \in full } \cup {All}
         IN [NoStat EXCEPT !.cells =
               IF full = {} THEN {}
               ELSE { [index |-> a, column |-> b, n |-> N(a, b)] :
                        a \in index, b \in columns }]

(* ------------------- utils.get_missing_values_summary ------------------ *)
\* df.isnull().sum() for one column
isnull_sum(df, column) == count_of(df, column, Null)

\* a summary that keeps every column
every_column(Valores_Nulos) == TRUE

\* summary['Valores_Nulos'] > 0
has_missing(Valores_Nulos) == Valores_Nulos > 0

\* the rows of the summary before they are sorted: Porcentaje is
\* missing / len(df) * 100, held as the fraction num / den
missing_rows(df) ==
    { [Columna |-> c, Valores_Nulos |-> isnull_sum(df, c),
       Porcentaje |-> [num |-> isnull_sum(df, c) * 100, den |-> Len(df.rows)]] :
        c \in { c \in df.columns : has_missing(isnull_sum(df, c)) } }

\* get_missing_values_summary(df): the orders sort_values can return the
\* rows in
get_missing_values_summary(df) ==
    Descending(missing_rows(df), "Valores_Nulos")

(* ---------------------- utils.create_summary_stats --------------------- *)
RECURSIVE sum(_)
sum(xs) == IF Len(xs) = 0 THEN 0 ELSE Head(xs) + sum(Tail(xs))

\* the squares of the numbers xs
squares(xs) == [i \in 1..Len(xs) |-> xs[i] * xs[i]]

\* create_summary_stats(df, column): Media is held as the fraction
\* sum / count, the quartiles and the median in quarters, the standard
\* deviation as its square (n * sum(x^2) - sum(x)^2) / (n * (n - 1)), and of
\* the coefficient of variation whether it is the literal 0, NaN or the ratio
create_summary_stats(df, column) ==
    IF column \notin df.columns THEN StatRaised("KeyError")
    ELSE IF df.dtypes[column] # "float64" THEN StatRaised("TypeError")
    ELSE LET xs == ascending(dropna(df, column))
             n == Len(xs)
             none == n = 0
         IN [NoStat EXCEPT !.stats =
              [Media |-> IF none THEN NaN ELSE [nan |-> FALSE, x |-> sum(xs), den |-> n],
               Mediana |-> quantile(xs, 2),
               Desv_Estandar_sq |->
                   IF n < 2 THEN NaN
                   ELSE [nan |-> FALSE, x |-> n * sum(squares(xs)) - sum(xs) * sum(xs),
                         den |-> n * (n - 1)],
               Minimo |-> IF none THEN NaN ELSE Exact(xs[1]),
               Maximo |-> IF none THEN NaN ELSE Exact(xs[n]),
               Q1 |-> quantile(xs, 1),
               Q3 |-> quantile(xs, 3),
               Rango |-> IF none THEN NaN ELSE Exact(xs[n] - xs[1]),
               Coef_Variacion |-> IF none THEN "nan"
                                  ELSE IF sum(xs) = 0 THEN "0"
                                  ELSE IF n < 2 THEN "nan" ELSE "ratio"]]

(* ------------------------------ inputs -------------------------------- *)
\* the columns of the tables the filter functions are called on
CoreCols == {"Programa", "Keywords"}
\* the columns of the tables of the search specification
SearchCols == {"Ref.UE", "Título", "Programa"}
\* the columns of the sheets of the data directory
SheetCols == {"Programa"}

\* the keys and the values of the filter mappings
FilterKeys == CoreCols
FilterValues ==
    { Scalar(Null), Scalar(Todos), Scalar(Str(<<>>)), Scalar(Num(0)),
      Scalar(Str(TxtA)), List(<<>>), List(<<Str(TxtA)>>),
      List(<<Str(TxtA), Str(TxtB)>>) }

\* every dict over FilterKeys, as its items in insertion order
FilterMappings ==
    { <<>> }
    \cup { <<[key |-> k, value |-> v]>> : k \in FilterKeys, v \in FilterValues }
    \cup { <<[key |-> k1, value |-> v1], [key |-> k2, value |-> v2]>> :
             <<k1, k2>> \in { p \in FilterKeys \X FilterKeys : p[1] # p[2] },
             <<v1, v2>> \in FilterValues \X FilterValues }

\* the columns of the tables the aggregation helpers are called on, the
\* column names they are called with, one of them in no table, and top_n:
\* None, 0 and 1
StatCols == {"Importe Concedido", "Duración (meses)"}
StatArgs == StatCols \cup {"Area"}
TopNs == {Null, Num(0), Num(1)}

(* ------------------------------- state -------------------------------- *)
VARIABLES
    files,      \* the format variants in the data directory that can be read
    clean,      \* the table in the preprocessed spreadsheet
    original,   \* the table in the original spreadsheet
    loaded,     \* "pending", or what load_data returned: "table" or "none"
    st_errors,  \* the st.error messages shown by load_data
    df,         \* the table load_data returned, on which the operations run
    op,         \* the operation called last
    filters,    \* the filter mapping passed to it
    query,      \* the text of the free-text form
    form,       \* the fields of the structured form
    result,     \* what the operation returned; NoFrame if it computed nothing
    prev,       \* the argument of a repeated call of apply_filters
    cache,      \* the memo of st.cache_data for load_data
    reads,      \* how often read_excel was called
    runs,       \* how often main ran
    widgets,    \* the values of the sidebar widgets in the last run of main
    df_filtered, \* the table main gave the four views
    views,      \* whether the four views were rendered in the last run
    args,       \* the column arguments and top_n of the helper called last
    stat        \* what the helper returned besides a table of rows of df

vars == <<files, clean, original, loaded, st_errors, df, op, filters, query,
          form, result, prev, cache, reads, runs, widgets, df_filtered, views,
          args, stat>>

disk == <<files, clean, original>>
loadvars == <<loaded, st_errors, df>>
session == <<cache, reads, runs, widgets, df_filtered, views>>
helper == <<args, stat>>

\* no helper called
NoArgs == [column |-> "", col2 |-> "", top_n |-> Null]
NoHelper == args = NoArgs /\ stat = NoStat

\* main never ran
NoSession ==
    /\ cache = EmptyCache
    /\ reads = 0
    /\ runs = 0
    /\ widgets = NoWidgets
    /\ df_filtered = NoFrame
    /\ views = FALSE

\* no operation called yet on the loaded table
Idle ==
    /\ op = "none"
    /\ filters = <<>>
    /\ query = <<>>
    /\ form = EmptyForm
    /\ result = NoFrame
    /\ prev = NoFrame

\* the state after load_data returned the table of the preprocessed
\* spreadsheet, the only file of the data directory
LoadedFrom(Schemas) ==
    /\ IsSheet(df, Schemas)
    /\ files = {"clean_xlsx"}
    /\ clean = df
    /\ original = NoFrame
    /\ loaded = "table"
    /\ st_errors = 0
    /\ Idle
    /\ NoSession
    /\ NoHelper

Init == LoadedFrom(SUBSET CoreCols)

\* a call apply_filters(df, F) on the table as loaded
CallApplyFilters ==
    \E F \in FilterMappings :
        /\ op = "none" /\ loaded = "table"
        /\ op' = "apply_filters"
        /\ filters' = F
        /\ result' = apply_filters(df, F)
        /\ UNCHANGED <<disk, loadvars, query, form, prev, session, helper>>

\* the same filters applied to the table apply_filters returned
ReapplyFilters ==
    /\ op = "apply_filters"
    /\ op' = "apply_filters_again"
    /\ prev' = result
    /\ result' = apply_filters(result, filters)
    /\ UNCHANGED <<disk, loadvars, filters, query, form, session, helper>>

\* a call filter_dataframe(df, F) on the table as loaded
CallFilterDataframe ==
    \E F \in FilterMappings :
        /\ op = "none" /\ loaded = "table"
        /\ op' = "filter_dataframe"
        /\ filters' = F
        /\ result' = filter_dataframe(df, F)
        /\ UNCHANGED <<disk, loadvars, query, form, prev, session, helper>>

\* a run of show_search(df) in which the free-text form is submitted
SubmitSmartSearch ==
    \E q \in SmartQueries :
        /\ op = "none" /\ loaded = "table"
        /\ op' = "smart_search"
        /\ query' = q
        /\ result' = IF smart_search_runs(TRUE, q)
                     THEN smart_search(df, q) ELSE NoFrame
        /\ UNCHANGED <<disk, loadvars, filters, form, prev, session, helper>>

\* a run of show_search(df) in which the structured form is submitted
SubmitDetailedSearch ==
    \E f \in Forms(df) :
        /\ op = "none" /\ loaded = "table"
        /\ op' = "detailed_search"
        /\ form' = f
        /\ result' = detailed_search(df, f)
        /\ UNCHANGED <<disk, loadvars, filters, query, prev, session, helper>>

\* the first call of load_data()
LoadData ==
    /\ loaded = "pending"
    /\ LET r == load_data(files, clean, original)
       IN /\ loaded' = r.loaded
          /\ df' = r.df
          /\ st_errors' = r.st_errors
    /\ UNCHANGED <<disk, op, filters, query, form, result, prev, session, helper>>

Next ==
    \/ CallApplyFilters
    \/ ReapplyFilters
    \/ CallFilterDataframe
    \/ SubmitSmartSearch
    \/ SubmitDetailedSearch

Spec == Init /\ [][Next]_vars

\* the search forms over tables that hold the columns of each kind of field
InitSearch == LoadedFrom(SUBSET SearchCols)
NextSearch == SubmitSmartSearch \/ SubmitDetailedSearch
SpecSearch == InitSearch /\ [][NextSearch]_vars

\* load_data over the data directories
InitLoad ==
    /\ files \in SUBSET Variants
    /\ IsSheet(clean, {SheetCols})
    /\ IsSheet(original, {SheetCols})
    /\ loaded = "pending"
    /\ st_errors = 0
    /\ df = NoFrame
    /\ Idle
    /\ NoSession
    /\ NoHelper
NextLoad == LoadData
SpecLoad == InitLoad /\ [][NextLoad]_vars

\* one run of main: load_data() through the memo, then the sidebar, the
\* filters, the four views and the search tab, or st.stop()
RunMain ==
    LET c == cached_load_data(cache, files, clean, original)
    IN \E w \in Widgets(c.ret.df) : \E sub \in Submissions(c.ret.df) :
         LET m == main(c.ret, w, sub)
         IN /\ cache' = c.cache
            /\ reads' = reads + c.read
            /\ runs' = runs + 1
            /\ loaded' = c.ret.loaded
            /\ st_errors' = c.ret.st_errors
            /\ df' = m.df
            /\ op' = m.op
            /\ widgets' = m.widgets
            /\ filters' = m.filters
            /\ df_filtered' = m.df_filtered
            /\ views' = m.views
            /\ query' = m.sub.q
            /\ form' = m.sub.f
            /\ result' = m.result
            /\ UNCHANGED <<disk, prev, helper>>

\* the run of main that opens the session
FirstRun == runs = 0 /\ RunMain

\* a run of main that a user interaction triggers
Rerun == runs > 0 /\ runs < MaxRuns /\ RunMain

\* a session over the data directory: main runs again on every interaction
InitSession ==
    /\ files \in SUBSET Variants
    /\ IsSheet(clean, {SheetCols})
    /\ original = NoFrame
    /\ loaded = "pending"
    /\ st_errors = 0
    /\ df = NoFrame
    /\ Idle
    /\ NoSession
    /\ NoHelper
NextSession == FirstRun \/ Rerun
SpecSession == InitSession /\ [][NextSession]_vars

\* the first run of main over the tables that hold up to two of the columns
\* of the centre filter and of the two range filters
MainCols == {centro_col, "Año Inicio", "Importe Concedido"}
MainSchemas == { S \in SUBSET MainCols : S # MainCols }
InitMain ==
    /\ IsSheet(clean, MainSchemas)
    /\ files = {"clean_xlsx"}
    /\ original = NoFrame
    /\ loaded = "pending"
    /\ st_errors = 0
    /\ df = NoFrame
    /\ Idle
    /\ NoSession
    /\ NoHelper
NextMain == FirstRun
SpecMain == InitMain /\ [][NextMain]_vars

\* a call detect_outliers(df, column)
CallDetectOutliers ==
    \E column \in StatArgs :
        /\ op = "none" /\ loaded = "table"
        /\ op' = "detect_outliers"
        /\ args' = [NoArgs EXCEPT !.column = column]
        /\ result' = detect_outliers(df, column).outliers
        /\ stat' = detect_outliers(df, column).stat
        /\ UNCHANGED <<disk, loadvars, filters, query, form, prev, session>>

\* a call create_frequency_table(df, column, top_n)
CallCreateFrequencyTable ==
    \E column \in StatArgs : \E top_n \in TopNs :
        \E freq \in IF column \in df.columns THEN value_counts(df, column)
                    ELSE { <<>> } :
            /\ op = "none" /\ loaded = "table"
            /\ op' = "create_frequency_table"
            /\ args' = [NoArgs EXCEPT !.column = column, !.top_n = top_n]
            /\ stat' = create_frequency_table(df, column, top_n, freq)
            /\ UNCHANGED <<disk, loadvars, filters, query, form, result, prev,
                           session>>

\* a call create_cross_table(df, col1, col2)
CallCreateCrossTable ==
    \E col1 \in StatArgs : \E col2 \in StatArgs :
        /\ op = "none" /\ loaded = "table"
        /\ op' = "create_cross_table"
        /\ args' = [NoArgs EXCEPT !.column = col1, !.col2 = col2]
        /\ stat' = create_cross_table(df, col1, col2)
        /\ UNCHANGED <<disk, loadvars, filters, query, form, result, prev,
                       session>>

\* a call get_missing_values_summary(df)
CallGetMissingValuesSummary ==
    \E summary \in get_missing_values_summary(df) :
        /\ op = "none" /\ loaded = "table"
        /\ op' = "get_missing_values_summary"
        /\ stat' = [NoStat EXCEPT !.table = summary]
        /\ UNCHANGED <<disk, loadvars, filters, query, form, result, prev,
                       session, args>>

\* a call create_summary_stats(df, column)
CallCreateSummaryStats ==
    \E column \in StatArgs :
        /\ op = "none" /\ loaded = "table"
        /\ op' = "create_summary_stats"
        /\ args' = [NoArgs EXCEPT !.column = column]
        /\ stat' = create_summary_stats(df, column)
        /\ UNCHANGED <<disk, loadvars, filters, query, form, result, prev,
                       session>>

\* the aggregation helpers over tables of numbers
InitStats ==
    /\ IsSheetUpTo(df, SUBSET StatCols, MaxStatRows)
    /\ files = {"clean_xlsx"}
    /\ clean = df
    /\ original = NoFrame
    /\ loaded = "table"
    /\ st_errors = 0
    /\ Idle
    /\ NoSession
    /\ NoHelper
NextStats ==
    \/ CallDetectOutliers
    \/ CallCreateFrequencyTable
    \/ CallCreateCrossTable
    \/ CallGetMissingValuesSummary
    \/ CallCreateSummaryStats
SpecStats == InitStats /\ [][NextStats]_vars

(* ============================== claims ================================= *)
\* the set of rows of a sequence of rows
RowSet(rows) == { rows[i] : i \in 1..Len(rows) }

\* out is in_ with some rows left out: no new row, no repeated row, same order
IsSubsequence(out, in_) ==
    LET Kept(r) == r \in RowSet(out) IN out = SelectSeq(in_, Kept)

\* a constraint that the specification calls inactive: the sentinel, an empty
\* list, None, or a key that is no column
Inactive(table, item) ==
    \/ item.value = Scalar(Todos)
    \/ item.value = List(<<>>)
    \/ item.value = Scalar(Null)
    \/ item.key \notin table.columns

ActiveItems(table, items) ==
    LET Act(item) == ~Inactive(table, item) IN SelectSeq(items, Act)

\* the row meets the constraint: one of the listed values, or the scalar
Meets(r, item) ==
    IF item.value.list
    THEN \E j \in 1..Len(item.value.items) : r.cells[item.key] = item.value.items[j]
    ELSE r.cells[item.key] = item.value.v

MeetsAll(table, items, r) ==
    \A i \in 1..Len(items) : Inactive(table, items[i]) \/ Meets(r, items[i])

\* C1: apply_filters returns exactly the rows that meet every active
\* constraint (a listed value for a list, the scalar itself for a scalar), in
\* their order.  The code skips a scalar that is falsy (0, ''), so it fails.
C1_ExactlyTheMatchingRows ==
    op = "apply_filters" =>
        LET Match(r) == MeetsAll(df, filters, r)
        IN result.exc = "" /\ result.rows = SelectSeq(df.rows, Match)

\* C2: with an empty filter mapping apply_filters and filter_dataframe return
\* the input table, row for row and in the same order.
C2_EmptyMappingReturnsTable ==
    (op \in {"apply_filters", "filter_dataframe"} /\ filters = <<>>) =>
        result = df

C2_Witness ==
    /\ op = "apply_filters"
    /\ filters = <<>>
    /\ Len(df.rows) >= 2
    /\ result.rows = df.rows

\* C3: apply_filters raises nothing and returns what it returns for the same
\* mapping without its inactive keys ("Todos", an empty list, None, a key that
\* is no column).
C3_InactiveKeysImposeNothing ==
    op = "apply_filters" =>
        /\ result.exc = ""
        /\ result = apply_filters(df, ActiveItems(df, filters))

C3_Witness ==
    /\ op = "apply_filters"
    /\ Len(filters) = 2
    /\ filters[1].key \notin df.columns
    /\ Truthy(filters[1].value)
    /\ ~Inactive(df, filters[2])
    /\ Len(result.rows) > 0
    /\ Len(result.rows) < Len(df.rows)

\* C4: applying the same filters to the filtered table changes nothing: the
\* second result has the rows of the first, in the same order.
C4_FilteringIsIdempotent ==
    op = "apply_filters_again" => result = prev

C4_Witness ==
    /\ op = "apply_filters_again"
    /\ Len(result.rows) > 0
    /\ Len(result.rows) < Len(df.rows)
    /\ result = prev

\* C5: what apply_filters, the free-text search and the structured search
\* return is a subsequence of their input table in the input order, without
\* repeated rows, hence with no more rows than the input.
C5_OrderPreservingSubsequence ==
    (op # "none" /\ result.exc = "") =>
        LET input == IF op = "apply_filters_again" THEN prev ELSE df
        IN /\ IsSubsequence(result.rows, input.rows)
           /\ Len(result.rows) <= Len(input.rows)
           /\ result.columns = input.columns

C5_Witness ==
    /\ op = "detailed_search"
    /\ Len(df.rows) = 2
    /\ result.exc = ""
    /\ result.rows = <<df.rows[2]>>

\* q occurs in s as a substring, letter case ignored
OccursIn(q, s) ==
    \E i \in 0..(Len(s) - Len(q)) :
        \A j \in 1..Len(q) : Lower(q[j]) = Lower(s[i + j])

\* a candidate column of the table holds a text in which the query occurs
CandidateHit(table, r, q) ==
    \E i \in 1..Len(search_fields) :
        /\ search_fields[i] \in table.columns
        /\ r.cells[search_fields[i]].k = "str"
        /\ OccursIn(q, r.cells[search_fields[i]].s)

\* C6: the free-text search with a non-empty query returns exactly the rows
\* in which a present candidate column holds a text that contains the query
\* as a substring, case ignored.  The code reads the query as a regular
\* expression, so it fails for the query ".".
C6_SubstringInSomeCandidateColumn ==
    (op = "smart_search" /\ Len(query) > 0) =>
        LET Hit(r) == CandidateHit(df, r, query)
        IN result.exc = "" /\ result.rows = SelectSeq(df.rows, Hit)

\* no field of the structured form constrains the table: each is empty, the
\* sentinel, or names a column that is absent
NoFieldActive(table, f) ==
    \A i \in 1..Len(SearchFields) :
        LET v == f[SearchFields[i]]
        IN \/ v = Null
           \/ v = Str(<<>>)
           \/ v = Todos
           \/ FieldColumn(SearchFields[i]) \notin table.columns

NoCandidateColumn(table) ==
    \A i \in 1..Len(search_fields) : search_fields[i] \notin table.columns

\* C7: a search without an active predicate returns every row: the structured
\* search whose fields are all empty, "Todos" or on absent columns, and the
\* free-text search on a table with none of the candidate columns.  The
\* free-text search then returns no row, so it fails.
C7_NoPredicateReturnsEverything ==
    /\ (op = "detailed_search" /\ NoFieldActive(df, form)) => result = df
    /\ (op = "smart_search" /\ Len(query) > 0 /\ NoCandidateColumn(df)) =>
           result = df

\* C8: submitting the free-text form with an empty or all-blank query runs no
\* search: no result is computed.  The code tests only that the query is not
\* the empty text, so a query of blanks is searched for.
C8_BlankQueryRunsNoSearch ==
    (op = "smart_search" /\ \A j \in 1..Len(query) : query[j] = " ") =>
        result = NoFrame

\* the fields of the form whose filter the search runs
ActiveFields(table, f) ==
    { SearchFields[i] : i \in { j \in 1..Len(SearchFields) :
          field_active(table, SearchFields[j], f[SearchFields[j]]) } }

\* the results of applying the filters of the fields F one at a time, in
\* every order
RECURSIVE InEveryOrder(_, _, _)
InEveryOrder(table, F, f) ==
    IF F = {} THEN {table}
    ELSE UNION { InEveryOrder(field_step(table, x, f[x]), F \ {x}, f) : x \in F }

\* the row is matched by every active field taken alone on the whole table
MatchedByEach(table, F, f, r) ==
    \A x \in F : r \in RowSet(field_step(table, x, f[x]).rows)

\* C9: the structured search returns what applying its active field
\* predicates one at a time returns in any order, and, when nothing raises,
\* the rows are those matched by every active field taken alone.
C9_FieldOrderDoesNotMatter ==
    op = "detailed_search" =>
        LET F == ActiveFields(df, form)
            Each(r) == MatchedByEach(df, F, form, r)
        IN /\ InEveryOrder(df, F, form) = {result}
           /\ result.exc = "" => result.rows = SelectSeq(df.rows, Each)

C9_Witness ==
    /\ op = "detailed_search"
    /\ result.exc = ""
    /\ Cardinality(ActiveFields(df, form)) >= 2
    /\ \A x \in ActiveFields(df, form) :
           Len(field_step(df, x, form[x]).rows) > Len(result.rows)

\* the first variant that can be read, in the order compact file,
\* preprocessed spreadsheet, original spreadsheet (the compact file holds the
\* preprocessed table)
FirstReadable ==
    IF "compact" \in files \/ "clean_xlsx" \in files
    THEN [loaded |-> "table", df |-> clean]
    ELSE IF "original_xlsx" \in files
         THEN [loaded |-> "table", df |-> original]
         ELSE [loaded |-> "none", df |-> NoFrame]

C11_NoDataStopsMain ==
    loaded = "none" =>
        /\ st_errors > 0
        /\ op = "stopped"
        /\ df = NoFrame
        /\ widgets = NoWidgets /\ filters = <<>>
        /\ df_filtered = NoFrame
        /\ ~views
        /\ result = NoFrame

\* a run of main after the file could not be read
C11_Witness ==
    "clean_xlsx" \notin files /\ runs > 0 /\ loaded = "none" /\ op = "stopped"

\* C12: the load is memoized for the life of the process: however often main
\* runs, the file is read at most once, and once a result is stored every
\* later call of load_data returns that result and reads nothing.
C12_LoadIsMemoized ==
    /\ [](reads <= 1)
    /\ [][cache.stored =>
            /\ cache' = cache
            /\ reads' = reads
            /\ loaded' = cache.ret.loaded
            /\ df' = cache.ret.df
            /\ st_errors' = cache.ret.st_errors]_vars

\* a second run of main that was served from the memo
C12_Witness == runs > 1 /\ reads = 1 /\ cache.stored

\* C13: the loaded table is never changed after load: after any sequence of
\* runs of main, with their filter changes, views and searches, the table
\* main holds and the table in the memo have the rows, the row order, the
\* columns and the cells of the sheet that was read.
C13_BaseTableUnchanged ==
    loaded = "table" => df = clean /\ cache.ret.df = clean

\* a rerun in which the filters excluded a row and a search returned rows
C13_Witness ==
    /\ runs > 1 /\ op = "main" /\ df = clean
    /\ df_filtered.exc = "" /\ Len(df_filtered.rows) < Len(df.rows)
    /\ result.exc = "" /\ Len(result.rows) > 0

\* the helpers that take a column name, and the column names the last call
\* was given
ColumnHelpers ==
    {"detect_outliers", "create_frequency_table", "create_cross_table",
     "create_summary_stats"}
ColumnArgs ==
    IF op = "create_cross_table" THEN {args.column, args.col2}
    ELSE IF op \in ColumnHelpers THEN {args.column} ELSE {}

\* the helper returned, and any table it returned is empty
EmptyOutcome ==
    /\ stat.exc = ""
    /\ stat.table = <<>> /\ stat.cells = {}
    /\ op = "detect_outliers" => result.exc = "" /\ result.rows = <<>>

\* C14: the aggregation helpers never raise on an absent or empty input
\* column: called with a column name that is not in the table, or on a table
\* with zero rows, each helper returns, and returns an empty result.
C14_HelpersNeverRaise ==
    (/\ op \in ColumnHelpers \cup {"get_missing_values_summary"}
     /\ Len(df.rows) = 0 \/ ~(ColumnArgs \subseteq df.columns))
        => EmptyOutcome

\* the sum of the Porcentaje column of a frequency table, in hundredths
TotalPorcentaje(table) == sum([i \in 1..Len(table) |-> table[i].Porcentaje])

\* a frequency table that holds every value of the column of a table with rows
Untruncated ==
    /\ op = "create_frequency_table" /\ stat.exc = ""
    /\ Len(df.rows) > 0
    /\ Len(stat.table) = Cardinality(unique(df, args.column))

\* C15: for a table that top-N did not truncate, the Porcentaje values of
\* create_frequency_table sum to 100 up to rounding (half a hundredth for each
\* value), for every table and column, columns with missing cells included.
C15_PercentagesSumTo100 ==
    Untruncated =>
        LET off == TotalPorcentaje(stat.table) - 10000
        IN 2 * off <= Len(stat.table) /\ -2 * off <= Len(stat.table)

\* Q1 and Q3 of the column the last call named, in quarters
Q1OfColumn == quantile(dropna(df, args.column), 1)
Q3OfColumn == quantile(dropna(df, args.column), 3)

\* the cell lies strictly below Q1 - 1.5 IQR or strictly above Q3 + 1.5 IQR:
\* with Q1 and Q3 in quarters, 8 v < 2 Q1 - 3 (Q3 - Q1) or
\* 8 v > 2 Q3 + 3 (Q3 - Q1)
StrictlyOutside(cell) ==
    /\ cell # Null
    /\ \/ 8 * cell.n < 2 * Q1OfColumn.x - 3 * (Q3OfColumn.x - Q1OfColumn.x)
       \/ 8 * cell.n > 2 * Q3OfColumn.x + 3 * (Q3OfColumn.x - Q1OfColumn.x)

\* every cell of the column that is not missing holds the same number
ConstantColumn ==
    \A i, j \in 1..Len(df.rows) :
        LET a == df.rows[i].cells[args.column]
            b == df.rows[j].cells[args.column]
        IN a # Null /\ b # Null => a = b

\* C16: detect_outliers returns exactly the rows whose value is strictly below
\* Q1 - 1.5 IQR or strictly above Q3 + 1.5 IQR, in the order of the table: no
\* row whose value equals a bound and no row whose value is missing; on a
\* column with one value in every row it returns no row and does not raise.
C16_ExactlyTheStrictOutliers ==
    (op = "detect_outliers" /\ args.column \in df.columns) =>
        /\ stat.exc = "" /\ result.exc = ""
        /\ LET Keep(r) == StrictlyOutside(r.cells[args.column])
           IN result.rows = SelectSeq(df.rows, Keep)
        /\ \A i \in 1..Len(result.rows) :
             LET cell == result.rows[i].cells[args.column]
             IN /\ cell # Null
                /\ 8 * cell.n # stat.lower_bound.x
                /\ 8 * cell.n # stat.upper_bound.x
        /\ ConstantColumn => result.rows = <<>>

\* an outlier returned from a column in which the other values differ from it
C16_Witness ==
    /\ op = "detect_outliers" /\ args.column \in df.columns
    /\ Len(result.rows) > 0 /\ Len(result.rows) < Len(df.rows)
    /\ ~stat.lower_bound.nan /\ stat.lower_bound.x < stat.upper_bound.x

\* the number of missing cells of column c
NullCount(c) ==
    Cardinality({ i \in 1..Len(df.rows) : df.rows[i].cells[c] = Null })

\* C17: get_missing_values_summary returns one entry for every column with at
\* least one missing cell and none for a column without; an entry holds the
\* column's count of missing cells and that count as a percentage of the row
\* count, and the entries are in descending order of the count.
C17_MissingValuesSummary ==
    op = "get_missing_values_summary" =>
        /\ stat.exc = ""
        /\ { stat.table[i].Columna : i \in 1..Len(stat.table) }
             = { c \in df.columns : NullCount(c) >= 1 }
        /\ \A i, j \in 1..Len(stat.table) :
             i # j => stat.table[i].Columna # stat.table[j].Columna
        /\ \A i \in 1..Len(stat.table) :
             LET e == stat.table[i]
             IN /\ e.Valores_Nulos = NullCount(e.Columna)
                /\ e.Porcentaje.den > 0
                /\ e.Porcentaje.num * Len(df.rows)
                     = 100 * NullCount(e.Columna) * e.Porcentaje.den
        /\ \A i, j \in 1..Len(stat.table) :
             i < j => stat.table[i].Valores_Nulos >= stat.table[j].Valores_Nulos

\* a summary of two columns with different counts, half of the cells of the
\* first one missing
C17_Witness ==
    /\ op = "get_missing_values_summary"
    /\ Len(stat.table) = 2
    /\ stat.table[1].Valores_Nulos > stat.table[2].Valores_Nulos
    /\ 2 * stat.table[1].Valores_Nulos = Len(df.rows)

\* C18: with every sidebar control left at its default ('Todos', nothing
\* chosen in a multi-select, both sliders at their full range) the table main
\* gives the views equals the loaded table, for every loaded table, tables
\* with a missing 'Año Inicio' or 'Importe Concedido' included.
C18_DefaultSidebarShowsEverything ==
    (op = "main" /\ widgets = DefaultWidgets(df)) => df_filtered = df

\* what the last run of main submitted in the search tab
Submitted ==
    IF result = NoFrame /\ query = <<>> /\ form = EmptyForm THEN NoSubmit
    ELSE IF form # EmptyForm THEN [kind |-> "detailed", q |-> <<>>, f |-> form]
    ELSE [kind |-> "smart", q |-> query, f |-> EmptyForm]

\* C19: search runs over the full loaded table, never over the table the
\* sidebar filtered: for the same table and the same search input the result
\* of either form is the same whatever the sidebar holds, so a row the
\* sidebar excluded can still be found.
C19_SearchIgnoresSidebar ==
    op = "main" /\ (query # <<>> \/ form # EmptyForm) =>
        result = show_search(clean, Submitted)

\* a search that returned a row which the sidebar filters had excluded
C19_Witness ==
    /\ op = "main" /\ result.exc = "" /\ df_filtered.exc = ""
    /\ \E i \in 1..Len(result.rows) :
         \A j \in 1..Len(df_filtered.rows) :
             df_filtered.rows[j] # result.rows[i]

\* the items of the mapping that are not skipped: the value is truthy and the
\* key is a column
Kept(table, items) ==
    LET Keep(item) == Truthy(item.value) /\ item.key \in table.columns
    IN SelectSeq(items, Keep)

\* no scalar of the mapping is the sentinel
NoScalarTodos == \A i \in 1..Len(filters) : filters[i].value # Scalar(Todos)

\* C20: the two filter functions agree: for every table and every mapping in
\* which no scalar is "Todos", apply_filters and filter_dataframe return the
\* same rows in the same order, and both skip a key whose value is falsy
\* (None, [], '', 0) or whose column is absent.
C20_FilterFunctionsAgree ==
    (op \in {"apply_filters", "filter_dataframe"} /\ NoScalarTodos) =>
        /\ result.exc = ""
        /\ result = apply_filters(df, filters)
        /\ result = filter_dataframe(df, filters)
        /\ result = apply_filters(df, Kept(df, filters))
        /\ result = filter_dataframe(df, Kept(df, filters))

\* a call of filter_dataframe with a falsy value for one column and a value
\* for another that some rows match and some do not
C20_Witness ==
    /\ op = "filter_dataframe" /\ NoScalarTodos
    /\ Len(filters) = 2 /\ Len(Kept(df, filters)) = 1
    /\ \E i \in 1..2 : filters[i].key \in df.columns /\ ~Truthy(filters[i].value)
    /\ Len(result.rows) > 0 /\ Len(result.rows) < Len(df.rows)

====
